---- MODULE Spec2Model ----
(***************************************************************************)
(* tooling/repro_lsp.py: a scripted JSON-RPC client that drives a child    *)
(* language server over its stdin/stdout/stderr pipes.                      *)
(*                                                                          *)
(* Bytes and characters.  A byte is a one-character string for the ASCII   *)
(* range; the two bytes of the UTF-8 form of U+00E9 are "0xC3" "0xA9", and *)
(* "0xFF" is a byte that is valid nowhere in UTF-8.  Decoded text is a     *)
(* sequence of characters: one-character strings, and "U+00E9".            *)
(***************************************************************************)
EXTENDS Integers, Sequences, FiniteSets, TLC

VARIABLES
    pc,         \* position of the main task in run()
    file,       \* environment: the input file, [ok |-> BOOLEAN, txt |-> text]
    child,      \* environment: the child process, [kind, frames, cut, closes, errs]
    inOpen,     \* the child still has its stdin open
    stdin,      \* the frames written and flushed to the child's stdin, in order
    sent,       \* the msg argument of each completed send(), in order
    echoed,     \* echo child: how many frames of stdin it has copied to stdout
    out,        \* bytes the child has written to stdout and run() has not read
    outEOF,     \* the child has closed its stdout
    err,        \* bytes the child has written to stderr and reader() has not read
    errEOF,     \* the child has closed its stderr
    rpc,        \* position of the reader thread
    exc,        \* the exception being propagated in run(), "" when none
    consumed,   \* number of bytes run() has read from stdout
    received,   \* what each json.loads in the read loop returned, in order
    bodies,     \* the bytes each process.stdout.read(cl) returned, in order
    trace,      \* the lines printed, in order
    terminated  \* number of process.terminate() calls made

VARIABLES      \* benchmark/sieve.py, run_sieve
    spc,            \* position in run_sieve and the functions it calls
    limit,          \* the argument of run_sieve
    size,           \* the number of odd numbers up to limit
    arr,            \* arr[k] = 1: 2k + 1 has not been struck out
    idx,            \* the i of init_sieve, find_next_prime and count_primes
    num,            \* the num of clear_multiples
    root,           \* q, the value isqrt returned
    guess,          \* the guess of isqrt
    factor,
    actual_factor,
    count           \* the count of count_primes

VARIABLES      \* run() on pipes of bounded capacity, sizes in bytes
    plan,           \* environment: the capacity and the sizes of frames and replies
    wk,             \* number of frames send() has written whole
    wleft,          \* bytes of the frame being written still to write
    inPipe,         \* bytes in the pipe of the child's stdin
    outPipe,        \* bytes in the pipe of the child's stdout
    errPipe,        \* bytes in the pipe of the child's stderr
    crk,            \* number of frames the child has read whole
    cgot,           \* bytes the child has read of the frame it is reading
    cout,           \* bytes of its reply the child has still to write
    cerr            \* bytes of its diagnostics the child has still to write

vars == <<pc, file, child, inOpen, stdin, sent, echoed, out, outEOF, err, errEOF, rpc, exc,
          consumed, received, bodies, trace, terminated>>

sieveVars == <<spc, limit, size, arr, idx, num, root, guess, factor, actual_factor, count>>

pipeVars == <<plan, wk, wleft, inPipe, outPipe, errPipe, crk, cgot, cout, cerr>>

----------------------------------------------------------------------------
(* String literals of the program, as character sequences. *)

S_ContentLength == <<"C", "o", "n", "t", "e", "n", "t", "-", "L", "e", "n", "g", "t", "h", ":">>
S_ContentTypeLine ==
    <<"C", "o", "n", "t", "e", "n", "t", "-", "T", "y", "p", "e", ":", " ", "a", "p", "p", "l",
    "i", "c", "a", "t", "i", "o", "n", "/", "v", "s", "c", "o", "d", "e", "-", "j", "s", "o",
    "n", "r", "p", "c", ";", " ", "c", "h", "a", "r", "s", "e", "t", "=", "u", "t", "f", "-",
    "8", "\r", "\n">>
S_ContentLengthSp ==
    <<"C", "o", "n", "t", "e", "n", "t", "-", "L", "e", "n", "g", "t", "h", ":", " ">>
S_jsonrpc == <<"j", "s", "o", "n", "r", "p", "c">>
S_2_0 == <<"2", ".", "0">>
S_method == <<"m", "e", "t", "h", "o", "d">>
S_params == <<"p", "a", "r", "a", "m", "s">>
S_id == <<"i", "d">>
S_error == <<"e", "r", "r", "o", "r">>
S_result == <<"r", "e", "s", "u", "l", "t">>
S_initialize == <<"i", "n", "i", "t", "i", "a", "l", "i", "z", "e">>
S_initialized == <<"i", "n", "i", "t", "i", "a", "l", "i", "z", "e", "d">>
S_didOpen ==
    <<"t", "e", "x", "t", "D", "o", "c", "u", "m", "e", "n", "t", "/", "d", "i", "d", "O", "p",
    "e", "n">>
S_textDocument == <<"t", "e", "x", "t", "D", "o", "c", "u", "m", "e", "n", "t">>
S_uri == <<"u", "r", "i">>
S_fileUri ==
    <<"f", "i", "l", "e", ":", "/", "/", "/", "t", "m", "p", "/", "a", "s", "t", "a", "r", ".",
    "m", "m", "l">>
S_languageId == <<"l", "a", "n", "g", "u", "a", "g", "e", "I", "d">>
S_mml == <<"m", "m", "l">>
S_version == <<"v", "e", "r", "s", "i", "o", "n">>
S_text == <<"t", "e", "x", "t">>
S_semanticTokens ==
    <<"t", "e", "x", "t", "D", "o", "c", "u", "m", "e", "n", "t", "/", "s", "e", "m", "a", "n",
    "t", "i", "c", "T", "o", "k", "e", "n", "s", "/", "f", "u", "l", "l">>
S_documentSymbol ==
    <<"t", "e", "x", "t", "D", "o", "c", "u", "m", "e", "n", "t", "/", "d", "o", "c", "u", "m",
    "e", "n", "t", "S", "y", "m", "b", "o", "l">>
S_definition ==
    <<"t", "e", "x", "t", "D", "o", "c", "u", "m", "e", "n", "t", "/", "d", "e", "f", "i", "n",
    "i", "t", "i", "o", "n">>
S_position == <<"p", "o", "s", "i", "t", "i", "o", "n">>
S_line == <<"l", "i", "n", "e">>
S_character == <<"c", "h", "a", "r", "a", "c", "t", "e", "r">>
S_null == <<"n", "u", "l", "l">>
S_XTrace == <<"X", "-", "T", "r", "a", "c", "e", ":", " ", "1", "\r", "\n">>
S_progress == <<"$", "/", "p", "r", "o", "g", "r", "e", "s", "s">>
S_code == <<"c", "o", "d", "e">>
S_ContentLen == <<"C", "o", "n", "t", "e", "n", "t", "-", "L", "e", "n">>

----------------------------------------------------------------------------
(* Sequences of characters and bytes. *)

\* the concatenation of the sequences of ss, by halves
RECURSIVE Flatten(_)
Flatten(ss) ==
    IF Len(ss) = 0 THEN <<>>
    ELSE IF Len(ss) = 1 THEN ss[1]
    ELSE LET h == Len(ss) \div 2
         IN  Flatten(SubSeq(ss, 1, h)) \o Flatten(SubSeq(ss, h + 1, Len(ss)))

Drop(s, n) == SubSeq(s, n + 1, Len(s))

Take(s, n) == SubSeq(s, 1, n)

\* str.startswith
StartsWith(s, p) == Len(s) >= Len(p) /\ Take(s, Len(p)) = p

\* the characters str.strip() removes
Whitespace == {" ", "\t", "\n", "\r"}

RECURSIVE LStrip(_)
LStrip(s) == IF s /= <<>> /\ Head(s) \in Whitespace THEN LStrip(Tail(s)) ELSE s

RECURSIVE RStrip(_)
RStrip(s) ==
    IF s /= <<>> /\ s[Len(s)] \in Whitespace THEN RStrip(Take(s, Len(s) - 1)) ELSE s

\* str.strip()
Strip(s) == RStrip(LStrip(s))

\* index of the first c in s, 0 when there is none
IndexOf(s, c, i) ==
    IF \E j \in i..Len(s) : s[j] = c
    THEN CHOOSE j \in i..Len(s) : s[j] = c /\ \A k \in i..(j - 1) : s[k] /= c
    ELSE 0

\* line.split(':')[1]: the text between the first colon and the next (or the end)
SplitColon1(s) ==
    LET a == IndexOf(s, ":", 1)
        rest == Drop(s, a)
        b == IndexOf(rest, ":", 1)
    IN  IF b = 0 THEN rest ELSE Take(rest, b - 1)

\* x in s, for strings: s has x as a substring
Contains(s, x) == \E i \in 0..(Len(s) - Len(x)) : SubSeq(s, i + 1, i + Len(x)) = x

Digits == <<"0", "1", "2", "3", "4", "5", "6", "7", "8", "9">>

DigitSet == {Digits[i] : i \in 1..10}

DigitVal(c) == (CHOOSE i \in 1..10 : Digits[i] = c) - 1

\* the decimal text of an integer, as str() and json.dumps write it
RECURSIVE NatToChars(_)
NatToChars(n) ==
    IF n < 10 THEN <<Digits[n + 1]>> ELSE NatToChars(n \div 10) \o <<Digits[(n % 10) + 1]>>

IntToChars(n) == IF n < 0 THEN <<"-">> \o NatToChars(0 - n) ELSE NatToChars(n)

RECURSIVE DigitsToNat(_, _)
DigitsToNat(s, acc) ==
    IF s = <<>> THEN acc ELSE DigitsToNat(Tail(s), acc * 10 + DigitVal(Head(s)))

\* int(text): surrounding whitespace, an optional sign, decimal digits;
\* anything else raises ValueError (ok = FALSE)
ParseInt(text) ==
    LET t == Strip(text)
        signed == t /= <<>> /\ Head(t) \in {"-", "+"}
        d == IF signed THEN Tail(t) ELSE t
    IN  IF d = <<>> \/ \E i \in 1..Len(d) : d[i] \notin DigitSet
        THEN [ok |-> FALSE, n |-> 0]
        ELSE [ok |-> TRUE,
              n |-> IF signed /\ Head(t) = "-" THEN 0 - DigitsToNat(d, 0)
                    ELSE DigitsToNat(d, 0)]

\* str.encode('utf-8')
Utf8Encode(text) ==
    Flatten([i \in 1..Len(text) |->
                IF text[i] = "U+00E9" THEN <<"0xC3", "0xA9">> ELSE <<text[i]>>])

\* bytes.decode('utf-8'): ok = FALSE is UnicodeDecodeError
Utf8Decode(bytes) ==
    LET lead(i) == bytes[i] = "0xC3"
        cont(i) == bytes[i] = "0xA9"
        valid == \A i \in 1..Len(bytes) :
                    /\ bytes[i] /= "0xFF"
                    /\ lead(i) => (i < Len(bytes) /\ cont(i + 1))
                    /\ cont(i) => (i > 1 /\ lead(i - 1))
    IN  IF valid
        THEN [ok |-> TRUE,
              text |-> Flatten([i \in 1..Len(bytes) |->
                                  IF lead(i) THEN <<"U+00E9">>
                                  ELSE IF cont(i) THEN <<>>
                                  ELSE <<bytes[i]>>])]
        ELSE [ok |-> FALSE, text |-> <<>>]

----------------------------------------------------------------------------
(* JSON values: Python's dict (insertion-ordered), str, int and None. *)

JNull == [t |-> "null", s |-> <<>>, n |-> 0, m |-> <<>>]

JStr(s) == [t |-> "str", s |-> s, n |-> 0, m |-> <<>>]

JInt(n) == [t |-> "int", s |-> <<>>, n |-> n, m |-> <<>>]

\* m is the sequence of <<key, value>> items, in insertion order
JObj(m) == [t |-> "obj", s |-> <<>>, n |-> 0, m |-> m]

\* key in d
HasKey(d, k) == d.t = "obj" /\ \E i \in 1..Len(d.m) : d.m[i][1] = k

\* d[key]
Get(d, k) == d.m[CHOOSE i \in 1..Len(d.m) : d.m[i][1] = k][2]

\* d.get(key)
GetOrNone(d, k) == IF HasKey(d, k) THEN Get(d, k) ELSE JNull

\* d[key] = value on the item list m: a repeated key keeps its place
DictSet(m, k, v) ==
    IF \E i \in 1..Len(m) : m[i][1] = k
    THEN [i \in 1..Len(m) |-> IF m[i][1] = k THEN <<k, v>> ELSE m[i]]
    ELSE Append(m, <<k, v>>)

\* json.dumps of one character of a string, ensure_ascii=True
EscapeChar(c) ==
    CASE c = "\"" -> <<"\\", "\"">>
      [] c = "\\" -> <<"\\", "\\">>
      [] c = "\n" -> <<"\\", "n">>
      [] c = "\r" -> <<"\\", "r">>
      [] c = "\t" -> <<"\\", "t">>
      [] c = "U+00E9" -> <<"\\", "u", "0", "0", "e", "9">>
      [] OTHER -> <<c>>

RECURSIVE DumpsChars(_)
DumpsChars(s) == IF s = <<>> THEN <<>> ELSE EscapeChar(Head(s)) \o DumpsChars(Tail(s))

DumpsString(s) == <<"\"">> \o DumpsChars(s) \o <<"\"">>

\* json.dumps(v): items separated by ", ", key and value by ": "
RECURSIVE Dumps(_)
RECURSIVE DumpsItems(_, _)
Dumps(v) ==
    CASE v.t = "str" -> DumpsString(v.s)
      [] v.t = "int" -> IntToChars(v.n)
      [] v.t = "null" -> S_null
      [] v.t = "obj" -> <<"{">> \o DumpsItems(v.m, 1) \o <<"}">>

DumpsItems(m, i) ==
    IF i > Len(m) THEN <<>>
    ELSE (IF i > 1 THEN <<",", " ">> ELSE <<>>)
         \o DumpsString(m[i][1]) \o <<":", " ">> \o Dumps(m[i][2])
         \o DumpsItems(m, i + 1)

\* the result of a failed parse: json.JSONDecodeError
ParseFail == [ok |-> FALSE, v |-> JNull, i |-> 0]

ParseOk(v, i) == [ok |-> TRUE, v |-> v, i |-> i]

RECURSIVE SkipWs(_, _)
SkipWs(s, i) == IF i <= Len(s) /\ s[i] \in Whitespace THEN SkipWs(s, i + 1) ELSE i

\* a string body from index i (after the opening quote) to its closing quote
RECURSIVE ScanString(_, _, _)
ScanString(s, i, acc) ==
    IF i > Len(s) THEN ParseFail
    ELSE IF s[i] = "\"" THEN ParseOk(JStr(acc), i + 1)
    ELSE IF s[i] = "\\"
    THEN IF i + 1 > Len(s) THEN ParseFail
         ELSE IF s[i + 1] \in {"\"", "\\", "/"}
         THEN ScanString(s, i + 2, Append(acc, s[i + 1]))
         ELSE IF s[i + 1] = "n" THEN ScanString(s, i + 2, Append(acc, "\n"))
         ELSE IF s[i + 1] = "r" THEN ScanString(s, i + 2, Append(acc, "\r"))
         ELSE IF s[i + 1] = "t" THEN ScanString(s, i + 2, Append(acc, "\t"))
         ELSE IF /\ s[i + 1] = "u"
                 /\ i + 5 <= Len(s)
                 /\ SubSeq(s, i + 2, i + 5) \in {<<"0", "0", "e", "9">>, <<"0", "0", "E", "9">>}
         THEN ScanString(s, i + 6, Append(acc, "U+00E9"))
         ELSE ParseFail
    ELSE IF s[i] \in {"\n", "\r", "\t"} THEN ParseFail
    ELSE ScanString(s, i + 1, Append(acc, s[i]))

\* the end of the run of digits that starts at i
RECURSIVE DigitsEnd(_, _)
DigitsEnd(s, i) == IF i <= Len(s) /\ s[i] \in DigitSet THEN DigitsEnd(s, i + 1) ELSE i

\* an integer literal at i
ScanNumber(s, i) ==
    LET neg == s[i] = "-"
        a == IF neg THEN i + 1 ELSE i
        b == IF a <= Len(s) /\ s[a] = "0" THEN a + 1 ELSE DigitsEnd(s, a)
        n == DigitsToNat(SubSeq(s, a, b - 1), 0)
    IN  IF b = a \/ (b <= Len(s) /\ s[b] \in {".", "e", "E"}) THEN ParseFail
        ELSE ParseOk(JInt(IF neg THEN 0 - n ELSE n), b)

RECURSIVE ParseValue(_, _)
RECURSIVE ParseItems(_, _, _)
ParseValue(s, i) ==
    IF i > Len(s) THEN ParseFail
    ELSE IF s[i] = "{"
    THEN LET j == SkipWs(s, i + 1)
         IN  IF j <= Len(s) /\ s[j] = "}" THEN ParseOk(JObj(<<>>), j + 1)
             ELSE ParseItems(s, j, <<>>)
    ELSE IF s[i] = "\"" THEN ScanString(s, i + 1, <<>>)
    ELSE IF s[i] \in DigitSet \cup {"-"} THEN ScanNumber(s, i)
    ELSE IF StartsWith(Drop(s, i - 1), S_null) THEN ParseOk(JNull, i + 4)
    ELSE ParseFail

\* the items of an object from the key at index i on
ParseItems(s, i, acc) ==
    IF i > Len(s) \/ s[i] /= "\"" THEN ParseFail
    ELSE LET k == ScanString(s, i + 1, <<>>)
         IN  IF ~k.ok THEN ParseFail
             ELSE LET c == SkipWs(s, k.i)
                  IN  IF c > Len(s) \/ s[c] /= ":" THEN ParseFail
                      ELSE LET v == ParseValue(s, SkipWs(s, c + 1))
                           IN  IF ~v.ok THEN ParseFail
                               ELSE LET e == SkipWs(s, v.i)
                                        acc2 == DictSet(acc, k.v.s, v.v)
                                    IN  IF e > Len(s) THEN ParseFail
                                        ELSE IF s[e] = ","
                                        THEN ParseItems(s, SkipWs(s, e + 1), acc2)
                                        ELSE IF s[e] = "}"
                                        THEN ParseOk(JObj(acc2), e + 1)
                                        ELSE ParseFail

\* json.loads(text): one value with optional whitespace around it; ok = FALSE
\* is json.JSONDecodeError.  Arrays, floats and booleans are outside the
\* grammar modelled here and no input of the model holds one.
Loads(text) ==
    LET r == ParseValue(text, SkipWs(text, 1))
    IN  IF r.ok /\ SkipWs(text, r.i) > Len(text)
        THEN [ok |-> TRUE, v |-> r.v]
        ELSE [ok |-> FALSE, v |-> JNull]

----------------------------------------------------------------------------
(* The scripted messages of run(), with the keys in the order written. *)

Msg(method, params) ==
    <<<<S_jsonrpc, JStr(S_2_0)>>, <<S_method, JStr(method)>>, <<S_params, params>>>>

UriDoc == JObj(<<<<S_uri, JStr(S_fileUri)>>>>)

MsgInitialize == JObj(Append(Msg(S_initialize, JObj(<<>>)), <<S_id, JInt(1)>>))

MsgInitialized == JObj(Msg(S_initialized, JObj(<<>>)))

MsgDidOpen(txt) ==
    JObj(Msg(S_didOpen,
             JObj(<<<<S_textDocument,
                      JObj(<<<<S_uri, JStr(S_fileUri)>>,
                             <<S_languageId, JStr(S_mml)>>,
                             <<S_version, JInt(1)>>,
                             <<S_text, JStr(txt)>>>>)>>>>)))

MsgSemanticTokens ==
    JObj(Append(Msg(S_semanticTokens, JObj(<<<<S_textDocument, UriDoc>>>>)),
                <<S_id, JInt(2)>>))

MsgDocumentSymbol ==
    JObj(Append(Msg(S_documentSymbol, JObj(<<<<S_textDocument, UriDoc>>>>)),
                <<S_id, JInt(3)>>))

MsgDefinition ==
    JObj(Append(Msg(S_definition,
                    JObj(<<<<S_textDocument, UriDoc>>,
                           <<S_position,
                             JObj(<<<<S_line, JInt(130)>>,
                                    <<S_character, JInt(6)>>>>)>>>>)),
                <<S_id, JInt(4)>>))

\* the methods of the script, in the order of the send() calls
Script ==
    <<S_initialize, S_initialized, S_didOpen, S_semanticTokens, S_documentSymbol,
      S_definition>>

\* Steps with documentSymbol requested before the semantic tokens
StepsSwapped ==
    <<"send_initialize", "send_initialized", "open", "send_didOpen",
      "send_documentSymbol", "send_semanticTokens", "print_documentSymbol",
      "send_definition", "print_definition", "loop">>

\* the statements of the try block, in order
Steps ==
    <<"send_initialize", "send_initialized", "open", "send_didOpen",
      "send_semanticTokens", "send_documentSymbol", "print_documentSymbol",
      "send_definition", "print_definition", "loop">>

After(p) == Steps[(CHOOSE i \in 1..Len(Steps) : Steps[i] = p) + 1]

SendSteps ==
    {"send_initialize", "send_initialized", "send_didOpen", "send_semanticTokens",
     "send_documentSymbol", "send_definition"}

\* SendArg with the id of the previous request pasted into documentSymbol
SendArgReusedId(p, txt) ==
    CASE p = "send_initialize" -> MsgInitialize
      [] p = "send_initialized" -> MsgInitialized
      [] p = "send_didOpen" -> MsgDidOpen(txt)
      [] p = "send_semanticTokens" -> MsgSemanticTokens
      [] p = "send_documentSymbol" -> JObj(DictSet(MsgDocumentSymbol.m, S_id, JInt(2)))
      [] p = "send_definition" -> MsgDefinition

\* SendArg with an id given to the initialized notification
SendArgNotifWithId(p, txt) ==
    CASE p = "send_initialize" -> MsgInitialize
      [] p = "send_initialized" -> JObj(Append(MsgInitialized.m, <<S_id, JInt(5)>>))
      [] p = "send_didOpen" -> MsgDidOpen(txt)
      [] p = "send_semanticTokens" -> MsgSemanticTokens
      [] p = "send_documentSymbol" -> MsgDocumentSymbol
      [] p = "send_definition" -> MsgDefinition

\* the argument of the send() at step p; txt is the text read from the file
SendArg(p, txt) ==
    CASE p = "send_initialize" -> MsgInitialize
      [] p = "send_initialized" -> MsgInitialized
      [] p = "send_didOpen" -> MsgDidOpen(txt)
      [] p = "send_semanticTokens" -> MsgSemanticTokens
      [] p = "send_documentSymbol" -> MsgDocumentSymbol
      [] p = "send_definition" -> MsgDefinition

CRLF == <<"\r", "\n">>

\* SendFrame with the header block ended by a single line break
SendFrameNoBlankLine(msg) ==
    LET content == Dumps(msg)
        l == Len(Utf8Encode(content))
        h == S_ContentTypeLine \o S_ContentLengthSp \o IntToChars(l) \o CRLF
    IN  Utf8Encode(h) \o Utf8Encode(content)

\* send(msg): the bytes of the two writes, header block then content
SendFrame(msg) ==
    LET content == Dumps(msg)
        l == Len(Utf8Encode(content))
        h == S_ContentTypeLine \o S_ContentLengthSp \o IntToChars(l) \o CRLF \o CRLF
    IN  Utf8Encode(h) \o Utf8Encode(content)

\* one printed line: k is its kind, v the value formatted into it,
\* e the exception of an "Error" line
Line(k, v) == [k |-> k, v |-> v, e |-> ""]

ErrorLine(e) == [k |-> "Error", v |-> JNull, e |-> e]

----------------------------------------------------------------------------
(* The read loop of run(). *)

\* pipe.readline(): up to and including the first "\n", or all that is left
ReadLine(buf) ==
    LET n == IndexOf(buf, "\n", 1) IN IF n = 0 THEN buf ELSE Take(buf, n)

\* Classify with the else branch printing msg.get('method')
ClassifyRespByMethod(msg) ==
    IF msg.t = "obj"
    THEN IF HasKey(msg, S_error) THEN [exc |-> "", line |-> Line("ERROR", msg)]
         ELSE IF HasKey(msg, S_method)
         THEN [exc |-> "", line |-> Line("NOTIF", Get(msg, S_method))]
         ELSE [exc |-> "", line |-> Line("RESP", GetOrNone(msg, S_method))]
    ELSE [exc |-> "TypeError", line |-> Line("", JNull)]

\* the if / elif / else on the decoded message: the line printed, or the
\* exception raised when msg is not a dict
Classify(msg) ==
    IF msg.t = "obj"
    THEN IF HasKey(msg, S_error) THEN [exc |-> "", line |-> Line("ERROR", msg)]
         ELSE IF HasKey(msg, S_method)
         THEN [exc |-> "", line |-> Line("NOTIF", Get(msg, S_method))]
         ELSE [exc |-> "", line |-> Line("RESP", GetOrNone(msg, S_id))]
    ELSE IF msg.t = "str"
    THEN IF Contains(msg.s, S_error) THEN [exc |-> "", line |-> Line("ERROR", msg)]
         ELSE IF Contains(msg.s, S_method)
         THEN [exc |-> "TypeError", line |-> Line("", JNull)]
         ELSE [exc |-> "AttributeError", line |-> Line("", JNull)]
    ELSE [exc |-> "TypeError", line |-> Line("", JNull)]

\* the outcome of one pass of the while loop on the unread bytes buf:
\*   kind     "break" | "skip" | "msg" | "raise"
\*   rest     the bytes left unread
\*   blocked  a read of this pass needs more bytes than buf holds, so the
\*            pass completes only once the stream has ended
Outcome(kind, e, rest, blocked) ==
    [kind |-> kind, exc |-> e, rest |-> rest, blocked |-> blocked,
     read |-> FALSE, body |-> <<>>, parsed |-> FALSE, msg |-> JNull,
     line |-> Line("", JNull)]

\* print of the decoded message, or the exception of its if / elif / else
Printed(body, msg, c, rest, blocked) ==
    IF c.exc /= ""
    THEN [Outcome("raise", c.exc, rest, blocked)
            EXCEPT !.read = TRUE, !.body = body, !.parsed = TRUE, !.msg = msg]
    ELSE [Outcome("msg", "", rest, blocked)
            EXCEPT !.read = TRUE, !.body = body, !.parsed = TRUE, !.msg = msg,
                   !.line = c.line]

\* msg = json.loads(body); j is its result on the decoded body
Parsed(body, j, rest, blocked) ==
    IF ~j.ok
    THEN [Outcome("raise", "JSONDecodeError", rest, blocked)
            EXCEPT !.read = TRUE, !.body = body]
    ELSE Printed(body, j.v, Classify(j.v), rest, blocked)

\* .decode('utf-8') of the bytes read; bd is its result
Decoded(body, bd, rest, blocked) ==
    IF ~bd.ok
    THEN [Outcome("raise", "UnicodeDecodeError", rest, blocked)
            EXCEPT !.read = TRUE, !.body = body]
    ELSE Parsed(body, Loads(bd.text), rest, blocked)

\* process.stdout.read(cl) on the bytes left: cl bytes, all of them when cl is
\* -1 or more than there are (at end of file), ValueError when cl < -1
ReadBody(rest, cl, blocked) ==
    IF cl < -1 THEN Outcome("raise", "ValueError", rest, blocked)
    ELSE IF cl = -1 \/ cl > Len(rest) THEN Decoded(rest, Utf8Decode(rest), <<>>, TRUE)
    ELSE Decoded(Take(rest, cl), Utf8Decode(Take(rest, cl)), Drop(rest, cl), blocked)

\* cl = int(line.split(':')[1].strip()), then the readline() that consumes
\* the line after the Content-Length line
ContentLength(rest, cl, blocked) ==
    IF ~cl.ok THEN Outcome("raise", "ValueError", rest, blocked)
    ELSE ReadBody(Drop(rest, Len(ReadLine(rest))), cl.n,
                  blocked \/ IndexOf(rest, "\n", 1) = 0)

\* line.decode('utf-8') and the startswith test; d is the decoded line
HeaderLine(rest, d, blocked) ==
    IF ~d.ok THEN Outcome("raise", "UnicodeDecodeError", rest, blocked)
    ELSE IF ~StartsWith(d.text, S_ContentLength) THEN Outcome("skip", "", rest, blocked)
    ELSE ContentLength(rest, ParseInt(SplitColon1(d.text)), blocked)

\* if not line: break
AfterReadline(buf, line, blocked) ==
    IF line = <<>> THEN Outcome("break", "", buf, blocked)
    ELSE HeaderLine(Drop(buf, Len(line)), Utf8Decode(line), blocked)

\* one iteration of the while loop on the bytes buf the child has written and
\* the loop has not read; blocked: a read of this iteration needs bytes past
\* the end of buf, so it returns only once the stream is at end of file
Iteration(buf) == AfterReadline(buf, ReadLine(buf), IndexOf(buf, "\n", 1) = 0)

----------------------------------------------------------------------------
(* The environment: the input file and the child process.                  *)
(* A stub child writes a fixed byte stream to stdout and closes it; an     *)
(* echo child copies every frame it receives on stdin to stdout, and one   *)
(* that closes may close its stdin at any time.                            *)

MaxTxt == 1

MaxExtra == 1

MaxDelta == 2

MaxFollow == 1

MaxErrLines == 1

TextChars == {"a", "\"", "\\", "\n", "U+00E9"}

\* texts where an escape of json.dumps meets the character after it
SampleTexts ==
    {<<"\\", "n">>, <<"\\", "\"">>, <<"\"", "U+00E9", "a">>, <<"a", "\n", "\\", "\\">>}

Texts == UNION {[1..n -> TextChars] : n \in 0..MaxTxt} \cup SampleTexts

Files == {[ok |-> TRUE, txt |-> t] : t \in Texts} \cup {[ok |-> FALSE, txt |-> <<>>]}

PlainFile == [ok |-> TRUE, txt |-> <<"a">>]

\* a message of the child with or without an error, a method and an id
InMsg(e, m, i) ==
    JObj(<<<<S_jsonrpc, JStr(S_2_0)>>>>
         \o (IF i THEN <<<<S_id, JInt(7)>>>> ELSE <<>>)
         \o (IF m THEN <<<<S_method, JStr(S_progress)>>, <<S_params, JObj(<<>>)>>>>
             ELSE <<>>)
         \o (IF e THEN <<<<S_error, JObj(<<<<S_code, JInt(-1)>>>>)>>>> ELSE <<>>)
         \o (IF ~e /\ ~m THEN <<<<S_result, JNull>>>> ELSE <<>>))

InMsgs == {InMsg(e, m, i) : e \in BOOLEAN, m \in BOOLEAN, i \in BOOLEAN}

\* a frame of the stub: pre and post extra header lines before and after the
\* Content-Length line, a declared length off by delta, pad newlines after
\* the JSON text of msg
FrameOf(pre, post, delta, msg, pad) ==
    [pre |-> pre, post |-> post, delta |-> delta, msg |-> msg, pad |-> pad]

PlainFrame(msg) == FrameOf(0, 0, 0, msg, 0)

Repeat(s, n) == Flatten([i \in 1..n |-> s])

FrameBody(f) == Utf8Encode(Dumps(f.msg)) \o Repeat(<<"\n">>, f.pad)

WireFrame(f) ==
    Repeat(Utf8Encode(S_XTrace), f.pre)
    \o Utf8Encode(S_ContentLengthSp \o IntToChars(Len(FrameBody(f)) + f.delta) \o CRLF)
    \o Repeat(Utf8Encode(S_XTrace), f.post)
    \o CRLF
    \o FrameBody(f)

WireFrames(fs) == Flatten([i \in 1..Len(fs) |-> WireFrame(fs[i])])

\* the bytes a stub child writes: its frames, less the last cut bytes
StubStream(c) == Take(WireFrames(c.frames), Len(WireFrames(c.frames)) - c.cut)

\* errs: the bytes the child writes to its stderr
Stub(frames, cut) == [kind |-> "stub", frames |-> frames, cut |-> cut, closes |-> FALSE,
     errs |-> <<>>]

EchoChild(closes) == [kind |-> "echo", frames |-> <<>>, cut |-> 0, closes |-> closes,
     errs |-> <<>>]

\* a child that answers every request and then closes its stdout
ReplyChild == [kind |-> "reply", frames |-> <<>>, cut |-> 0, closes |-> FALSE,
     errs |-> <<>>]

\* the success response to the request with identifier id
Response(id) == JObj(<<<<S_jsonrpc, JStr(S_2_0)>>, <<S_id, id>>, <<S_result, JNull>>>>)

WellFormed ==
    {FrameOf(pre, post, 0, msg, 0) :
        pre \in 0..MaxExtra, post \in 0..MaxExtra, msg \in InMsgs}

WrongLength ==
    {FrameOf(0, 0, d, msg, pad) :
        d \in (0 - MaxDelta)..MaxDelta \ {0},
        msg \in {InMsg(FALSE, FALSE, TRUE), InMsg(FALSE, TRUE, FALSE)},
        pad \in 0..1}

Followers ==
    UNION {[1..n -> {PlainFrame(InMsg(FALSE, FALSE, TRUE))}] : n \in 0..MaxFollow}

Whole ==
    {Stub(<<f>> \o fs, 0) :
        f \in {g \in WellFormed : g.pre + g.post <= MaxExtra} \cup WrongLength,
        fs \in Followers}

Truncated ==
    {Stub(fs, cut) :
        fs \in {<<FrameOf(pre, 0, 0, InMsg(FALSE, FALSE, TRUE), 0)>> : pre \in 0..MaxExtra},
        cut \in 1..Len(WireFrame(FrameOf(MaxExtra, 0, 0, InMsg(FALSE, FALSE, TRUE), 0)))}

Stubs == Whole \cup {s \in Truncated : s.cut <= Len(WireFrames(s.frames))}

GoodErrLine == <<" ", "w", "0xC3", "0xA9", "\r", "\n">>

BadErrLine == <<"w", "0xFF", "\n">>

ErrStreams == {Flatten(ls) : ls \in UNION {[1..n -> {GoodErrLine, BadErrLine}] : n \in 0..MaxErrLines}}

\* what the environment of one run is
Scenarios ==
    {[file |-> PlainFile, child |-> c, err |-> <<>>, errEOF |-> TRUE] : c \in Stubs}
    \cup {[file |-> f, child |-> EchoChild(FALSE), err |-> <<>>, errEOF |-> FALSE] : f \in Files}
    \cup {[file |-> PlainFile, child |-> EchoChild(TRUE), err |-> <<>>, errEOF |-> FALSE]}
    \cup {[file |-> PlainFile,
           child |-> [Stub(<<PlainFrame(InMsg(FALSE, FALSE, TRUE))>>, 0) EXCEPT !.errs = e],
           err |-> e, errEOF |-> b] : e \in ErrStreams, b \in BOOLEAN}
    \cup {[file |-> f, child |-> ReplyChild, err |-> <<>>, errEOF |-> FALSE] :
             f \in {PlainFile, [ok |-> FALSE, txt |-> <<>>]}}

----------------------------------------------------------------------------
(* run(): the state after Popen, t.start() and the first print. *)

\* no part of run_sieve is running
SieveIdle ==
    /\ spc = "idle"
    /\ limit = 0
    /\ size = 0
    /\ arr = <<>>
    /\ idx = 0
    /\ num = 0
    /\ root = 0
    /\ guess = 0
    /\ factor = 0
    /\ actual_factor = 0
    /\ count = 0

\* no session on bounded pipes is running
PipeIdle ==
    /\ plan = [cap |-> 0, text |-> 0, reply |-> 0, diag |-> 0]
    /\ wk = 0
    /\ wleft = 0
    /\ inPipe = 0
    /\ outPipe = 0
    /\ errPipe = 0
    /\ crk = 0
    /\ cgot = 0
    /\ cout = 0
    /\ cerr = 0

Init ==
    \E sc \in Scenarios :
        /\ pc = "send_initialize"
        /\ file = sc.file
        /\ child = sc.child
        /\ inOpen = TRUE
        /\ stdin = <<>>
        /\ sent = <<>>
        /\ echoed = 0
        /\ out = IF sc.child.kind = "stub" THEN StubStream(sc.child) ELSE <<>>
        /\ outEOF = (sc.child.kind = "stub")
        /\ err = sc.err
        /\ errEOF = sc.errEOF
        /\ rpc = "read"
        /\ exc = ""
        /\ consumed = 0
        /\ received = <<>>
        /\ bodies = <<>>
        /\ trace = <<Line("Starting", JNull)>>
        /\ terminated = 0
        /\ SieveIdle
        /\ PipeIdle

\* run() is not running
MainIdle ==
    /\ pc = "idle"
    /\ file = PlainFile
    /\ child = ReplyChild
    /\ inOpen = FALSE
    /\ stdin = <<>>
    /\ sent = <<>>
    /\ echoed = 0
    /\ out = <<>>
    /\ outEOF = FALSE
    /\ err = <<>>
    /\ errEOF = FALSE
    /\ rpc = "idle"
    /\ exc = ""
    /\ consumed = 0
    /\ received = <<>>
    /\ bodies = <<>>
    /\ trace = <<>>
    /\ terminated = 0

\* an exception leaves the try block for the except clause
Raise(e) == pc' = "except" /\ exc' = e

\* Send with the failure of the write reported inside send(), the script
\* going on to its next step
SendGoesOn ==
    /\ pc \in SendSteps
    /\ IF inOpen
       THEN /\ stdin' = Append(stdin, SendFrame(SendArg(pc, file.txt)))
            /\ sent' = Append(sent, SendArg(pc, file.txt))
            /\ trace' = Append(trace, Line("Sent", GetOrNone(SendArg(pc, file.txt), S_method)))
            /\ pc' = After(pc)
            /\ exc' = exc
       ELSE /\ trace' = Append(trace, ErrorLine("BrokenPipeError"))
            /\ pc' = After(pc)
            /\ UNCHANGED <<stdin, sent, exc>>
    /\ UNCHANGED <<file, child, inOpen, echoed, out, outEOF, err, errEOF, rpc, consumed,
                   received, bodies, terminated>>
    /\ UNCHANGED <<sieveVars, pipeVars>>

\* send(msg) at a send step: both writes and the flush succeed and the line
\* is printed, or the child has closed its stdin and the write raises
Send ==
    /\ pc \in SendSteps
    /\ IF inOpen
       THEN /\ stdin' = Append(stdin, SendFrame(SendArg(pc, file.txt)))
            /\ sent' = Append(sent, SendArg(pc, file.txt))
            /\ trace' = Append(trace, Line("Sent", GetOrNone(SendArg(pc, file.txt), S_method)))
            /\ pc' = After(pc)
            /\ exc' = exc
       ELSE /\ Raise("BrokenPipeError")
            /\ UNCHANGED <<stdin, sent, trace>>
    /\ UNCHANGED <<file, child, inOpen, echoed, out, outEOF, err, errEOF, rpc, consumed,
                   received, bodies, terminated>>
    /\ UNCHANGED <<sieveVars, pipeVars>>

\* with open(...) as f: txt = f.read()
OpenFile ==
    /\ pc = "open"
    /\ IF file.ok THEN pc' = After(pc) /\ exc' = exc ELSE Raise("FileNotFoundError")
    /\ UNCHANGED <<file, child, inOpen, stdin, sent, echoed, out, outEOF, err, errEOF, rpc,
                   consumed, received, bodies, trace, terminated>>
    /\ UNCHANGED <<sieveVars, pipeVars>>

\* print("Sent documentSymbol"), print("Sent definition")
PrintSent ==
    /\ pc \in {"print_documentSymbol", "print_definition"}
    /\ trace' = Append(trace, Line("SentNote",
                  JStr(IF pc = "print_documentSymbol" THEN S_documentSymbol
                       ELSE S_definition)))
    /\ pc' = After(pc)
    /\ UNCHANGED <<file, child, inOpen, stdin, sent, echoed, out, outEOF, err, errEOF, rpc,
                   exc, consumed, received, bodies, terminated>>
    /\ UNCHANGED <<sieveVars, pipeVars>>

\* one pass of the while loop; a read that lacks bytes waits for them or for
\* the end of the stream
ReadLoop ==
    /\ pc = "loop"
    /\ \E it \in {Iteration(out)} :
           /\ outEOF \/ ~it.blocked
           /\ out' = it.rest
           /\ consumed' = consumed + (Len(out) - Len(it.rest))
           /\ bodies' = IF it.read THEN Append(bodies, it.body) ELSE bodies
           /\ received' = IF it.parsed THEN Append(received, it.msg) ELSE received
           /\ trace' = IF it.kind = "msg" THEN Append(trace, it.line) ELSE trace
           /\ IF it.kind = "raise" THEN Raise(it.exc)
              ELSE /\ pc' = IF it.kind = "break" THEN "finally" ELSE "loop"
                   /\ exc' = exc
    /\ UNCHANGED <<file, child, inOpen, stdin, sent, echoed, outEOF, err, errEOF, rpc,
                   terminated>>
    /\ UNCHANGED <<sieveVars, pipeVars>>

\* Except with the cleanup left to the end of the try block: not reached
ExceptWithoutFinally ==
    /\ pc = "except"
    /\ trace' = Append(trace, ErrorLine(exc))
    /\ exc' = ""
    /\ pc' = "done"
    /\ UNCHANGED <<file, child, inOpen, stdin, sent, echoed, out, outEOF, err, errEOF, rpc,
                   consumed, received, bodies, terminated>>
    /\ UNCHANGED <<sieveVars, pipeVars>>

\* except Exception as e: print(f"Error: {e}")
Except ==
    /\ pc = "except"
    /\ trace' = Append(trace, ErrorLine(exc))
    /\ exc' = ""
    /\ pc' = "finally"
    /\ UNCHANGED <<file, child, inOpen, stdin, sent, echoed, out, outEOF, err, errEOF, rpc,
                   consumed, received, bodies, terminated>>
    /\ UNCHANGED <<sieveVars, pipeVars>>

\* finally: process.terminate(); a child that dies of the signal closes its
\* streams, one that handles it may keep them open
Finally ==
    /\ pc = "finally"
    /\ terminated' = terminated + 1
    /\ pc' = "done"
    /\ \E dies \in BOOLEAN :
          /\ outEOF' = (outEOF \/ dies)
          /\ errEOF' = (errEOF \/ dies)
    /\ UNCHANGED <<file, child, inOpen, stdin, sent, echoed, out, err, rpc, exc, consumed,
                   received, bodies, trace>>
    /\ UNCHANGED <<sieveVars, pipeVars>>

\* run() has returned: the interpreter exits and takes the daemon thread with it
Exit ==
    /\ pc = "done"
    /\ pc' = "exited"
    /\ UNCHANGED <<file, child, inOpen, stdin, sent, echoed, out, outEOF, err, errEOF, rpc,
                   exc, consumed, received, bodies, trace, terminated>>
    /\ UNCHANGED <<sieveVars, pipeVars>>

\* Reader with the try inside the for loop: a failure is printed and the
\* loop goes on
ReaderKeepsGoing ==
    /\ rpc = "read"
    /\ pc /= "exited"
    /\ errEOF \/ IndexOf(err, "\n", 1) /= 0
    /\ LET line == ReadLine(err)
           d == Utf8Decode(line)
       IN  /\ err' = Drop(err, Len(line))
           /\ IF line = <<>> THEN rpc' = "done" /\ trace' = trace
              ELSE IF ~d.ok
              THEN /\ rpc' = "read"
                   /\ trace' = Append(trace, [k |-> "ReaderError", v |-> JNull,
                                              e |-> "UnicodeDecodeError"])
              ELSE /\ rpc' = "read"
                   /\ trace' = Append(trace, Line("STDERR", JStr(Strip(d.text))))
    /\ UNCHANGED <<pc, file, child, inOpen, stdin, sent, echoed, out, outEOF, errEOF, exc,
                   consumed, received, bodies, terminated>>
    /\ UNCHANGED <<sieveVars, pipeVars>>

\* Reader with a loop that also ends when the main task is past its read loop
ReaderStopsWithMain ==
    /\ rpc = "read"
    /\ pc /= "exited"
    /\ errEOF \/ IndexOf(err, "\n", 1) /= 0
    /\ LET line == ReadLine(err)
           d == Utf8Decode(line)
       IN  /\ err' = Drop(err, Len(line))
           /\ IF line = <<>> \/ pc \in {"finally", "done"}
              THEN rpc' = "done" /\ trace' = trace
              ELSE IF ~d.ok
              THEN /\ rpc' = "done"
                   /\ trace' = Append(trace, [k |-> "ReaderError", v |-> JNull,
                                              e |-> "UnicodeDecodeError"])
              ELSE /\ rpc' = "read"
                   /\ trace' = Append(trace, Line("STDERR", JStr(Strip(d.text))))
    /\ UNCHANGED <<pc, file, child, inOpen, stdin, sent, echoed, out, outEOF, errEOF, exc,
                   consumed, received, bodies, terminated>>
    /\ UNCHANGED <<sieveVars, pipeVars>>

\* reader(process.stderr, "STDERR"): one pass of the for loop, its end at the
\* end of the stream, or the except clause
Reader ==
    /\ rpc = "read"
    /\ pc /= "exited"
    /\ errEOF \/ IndexOf(err, "\n", 1) /= 0
    /\ LET line == ReadLine(err)
           d == Utf8Decode(line)
       IN  /\ err' = Drop(err, Len(line))
           /\ IF line = <<>> THEN rpc' = "done" /\ trace' = trace
              ELSE IF ~d.ok
              THEN /\ rpc' = "done"
                   /\ trace' = Append(trace, [k |-> "ReaderError", v |-> JNull,
                                              e |-> "UnicodeDecodeError"])
              ELSE /\ rpc' = "read"
                   /\ trace' = Append(trace, Line("STDERR", JStr(Strip(d.text))))
    /\ UNCHANGED <<pc, file, child, inOpen, stdin, sent, echoed, out, outEOF, errEOF, exc,
                   consumed, received, bodies, terminated>>
    /\ UNCHANGED <<sieveVars, pipeVars>>

\* the echo child copies the next frame it received to its stdout
ChildEcho ==
    /\ child.kind = "echo"
    /\ ~outEOF
    /\ echoed < Len(stdin)
    /\ out' = out \o stdin[echoed + 1]
    /\ echoed' = echoed + 1
    /\ UNCHANGED <<pc, file, child, inOpen, stdin, sent, outEOF, err, errEOF, rpc, exc,
                   consumed, received, bodies, trace, terminated>>
    /\ UNCHANGED <<sieveVars, pipeVars>>

\* the reply child reads the next frame on its stdin and answers it, if it
\* is a request, with one response that carries its identifier
ChildReply ==
    /\ child.kind = "reply"
    /\ ~outEOF
    /\ echoed < Len(stdin)
    /\ out' = IF HasKey(sent[echoed + 1], S_id)
              THEN out \o WireFrame(PlainFrame(Response(Get(sent[echoed + 1], S_id))))
              ELSE out
    /\ echoed' = echoed + 1
    /\ UNCHANGED <<pc, file, child, inOpen, stdin, sent, outEOF, err, errEOF, rpc, exc,
                   consumed, received, bodies, trace, terminated>>
    /\ UNCHANGED <<sieveVars, pipeVars>>

\* the child closes its stdout: the echo child at any time, the reply child
\* when it has read the whole script
ChildClose ==
    /\ child.kind = "echo" \/ (child.kind = "reply" /\ echoed = Len(Script))
    /\ ~outEOF
    /\ outEOF' = TRUE
    /\ UNCHANGED <<pc, file, child, inOpen, stdin, sent, echoed, out, err, errEOF, rpc, exc,
                   consumed, received, bodies, trace, terminated>>
    /\ UNCHANGED <<sieveVars, pipeVars>>

\* a child that closes its stdin does so at a time of its own
ChildCloseStdin ==
    /\ child.closes
    /\ inOpen
    /\ inOpen' = FALSE
    /\ UNCHANGED <<pc, file, child, stdin, sent, echoed, out, outEOF, err, errEOF, rpc,
                   exc, consumed, received, bodies, trace, terminated>>
    /\ UNCHANGED <<sieveVars, pipeVars>>

Next ==
    \/ Send
    \/ OpenFile
    \/ PrintSent
    \/ ReadLoop
    \/ Except
    \/ Finally
    \/ Exit
    \/ Reader
    \/ ChildEcho
    \/ ChildReply
    \/ ChildClose
    \/ ChildCloseStdin

Spec == Init /\ [][Next]_vars

\* the steps of the main task
Main == Send \/ OpenFile \/ PrintSent \/ ReadLoop \/ Except \/ Finally \/ Exit

\* the main task can take a step: it is not in a read that waits for bytes
\* of a stream still open, and has not exited
MainEnabled ==
    /\ pc /= "exited"
    /\ pc = "loop" => (outEOF \/ ~Iteration(out).blocked)

\* the reader thread can take a step
ReaderEnabled == rpc = "read" /\ pc /= "exited" /\ (errEOF \/ IndexOf(err, "\n", 1) /= 0)

\* the reply child has a frame to read, or is through and has its stdout open
ReplyEnabled == child.kind = "reply" /\ ~outEOF /\ echoed < Len(stdin)

ReplyCloseEnabled == child.kind = "reply" /\ ~outEOF /\ echoed = Len(Script)

\* Spec with the scheduling the interpreter and the claims' children give:
\* the main thread and the reader thread run when they can, and the reply
\* child answers what it received and closes its stdout when it is through
LiveSpec ==
    /\ Spec
    /\ []<>(~MainEnabled) \/ []<><<Main>>_vars
    /\ []<>(~ReaderEnabled) \/ []<><<Reader>>_vars
    /\ []<>(~ReplyEnabled) \/ []<><<ChildReply>>_vars
    /\ []<>(~ReplyCloseEnabled) \/ []<><<ChildClose>>_vars


----------------------------------------------------------------------------
(* Properties. *)

\* the lines the read loop printed for messages, in order
RecvLines(tr) == SelectSeq(tr, LAMBDA l : l.k \in {"ERROR", "NOTIF", "RESP"})

\* the lines the except clause printed
ErrorLines(tr) == SelectSeq(tr, LAMBDA l : l.k = "Error")

\* the lines of the main task
MainLines(tr) == SelectSeq(tr, LAMBDA l : l.k \notin {"STDERR", "ReaderError"})

\* all six sends were made and the read loop has been left
LoopLeft == Len(sent) = 6 /\ pc \in {"except", "finally", "done", "exited"}

\* as LoopLeft, and the except clause, if entered, has printed its line
LoopReported == Len(sent) = 6 /\ pc \in {"finally", "done", "exited"}

HasAny(m) == HasKey(m, S_error) \/ HasKey(m, S_method) \/ HasKey(m, S_id)

\* the kind the message router of the specification gives a message
RouterKind(m) ==
    IF HasKey(m, S_error) THEN "ERROR"
    ELSE IF HasKey(m, S_method) /\ ~HasKey(m, S_id) THEN "NOTIF"
    ELSE "RESP"

\* C1: every decoded incoming message that carries an error, a method or an
\* id is printed as exactly one kind: an error reply if it has 'error',
\* otherwise a notification if and only if it has 'method' and no 'id',
\* otherwise a response; a message with both 'method' and 'id' is not
\* printed as a notification.
C1_Classification ==
    \A i \in 1..Len(RecvLines(trace)) :
        (i <= Len(received) /\ received[i].t = "obj" /\ HasAny(received[i]))
            => RecvLines(trace)[i].k = RouterKind(received[i])

\* C2: a decoded message with none of 'error', 'method', 'id' is never
\* printed as a response (it is surfaced as malformed), and the loop goes on.
C2_MalformedSurfaced ==
    \A i \in 1..Len(RecvLines(trace)) :
        (i <= Len(received) /\ received[i].t = "obj" /\ ~HasAny(received[i]))
            => RecvLines(trace)[i].k /= "RESP"

\* the stub's frames are well formed but for extra header lines, and whole
ExtraHeadersOnly ==
    /\ child.kind = "stub"
    /\ child.cut = 0
    /\ \A i \in 1..Len(child.frames) : child.frames[i].delta = 0 /\ child.frames[i].pad = 0

\* C3: an extra unrecognized header line anywhere before the blank line,
\* before or after Content-Length, changes nothing: the loop reads the body
\* of every frame and prints the line of its message, as without the header.
C3_ExtraHeaderIgnored ==
    (LoopLeft /\ ExtraHeadersOnly)
        => /\ bodies = [i \in 1..Len(child.frames) |-> FrameBody(child.frames[i])]
           /\ RecvLines(trace)
                = [i \in 1..Len(child.frames) |-> Classify(child.frames[i].msg).line]
           /\ pc /= "except"
           /\ ErrorLines(trace) = <<>>

\* the stub's first frame declares a length that is not that of its body
FirstLengthWrong ==
    /\ child.kind = "stub"
    /\ child.cut = 0
    /\ child.frames[1].delta /= 0
    /\ child.frames[1].pad = 0

\* C4: a frame whose declared Content-Length differs from the body bytes
\* present yields a reported framing error; no message built from the
\* truncated or padded body is printed and nothing after it is decoded.
C4_LengthEnforced ==
    (LoopReported /\ FirstLengthWrong)
        => /\ ErrorLines(trace) /= <<>>
           /\ RecvLines(trace) = <<>>

\* the stub declared N body bytes, wrote fewer and closed its stdout
ShortBody ==
    /\ child.kind = "stub"
    /\ Len(child.frames) = 1
    /\ child.frames[1].pre = 0
    /\ child.frames[1].post = 0
    /\ child.frames[1].pad = 0
    /\ \/ child.cut = 0 /\ child.frames[1].delta > 0
       \/ /\ child.frames[1].delta = 0
          /\ child.cut \in 1..Len(FrameBody(child.frames[1]))

\* C5: when the child declares N body bytes, provides fewer and closes its
\* stdout, the run ends with an error reported and the child terminated.
C5_ShortBodyReported ==
    (Len(sent) = 6 /\ pc = "done" /\ ShortBody)
        => /\ ErrorLines(trace) /= <<>>
           /\ terminated = 1

\* the length of the header block of a frame, its blank line included
HeaderLen(f) == Len(WireFrame(f)) - Len(FrameBody(f))

\* the stub's stdout ended after one or more whole header lines and before
\* the blank line
EndsInHeader ==
    /\ child.kind = "stub"
    /\ Len(child.frames) = 1
    /\ LET n == Len(StubStream(child))
       IN  /\ n > 0
           /\ n < HeaderLen(child.frames[1]) - 2
           /\ StubStream(child)[n] = "\n"

\* C6: the loop ends without an error only when the stream ends where a new
\* header block was expected; a stream that ends inside a header block,
\* after one or more header lines, has an error reported.
C6_HeaderEofReported ==
    (LoopReported /\ EndsInHeader) => ErrorLines(trace) /= <<>>

\* the exceptions the decoding steps of the read loop raise
DecodeErrors == {"UnicodeDecodeError", "ValueError", "JSONDecodeError", "TypeError",
                 "AttributeError"}

\* the number of bytes of the first k frames written to stdin
FramesLen(k) == Len(Flatten(SubSeq(stdin, 1, k)))

\* C7: round trip.  When the bytes send() wrote are fed back to the read
\* loop, the k-th message decoded is the k-th message sent, its body is the
\* UTF-8 form of its serialization, exactly the bytes of the first k frames
\* (and at most the next frame's Content-Type line) have been consumed, no
\* decoding step raises, and all frames echoed are decoded when the loop ends.
C7_RoundTrip ==
    child.kind = "echo"
        => /\ Len(received) <= Len(sent)
           /\ Len(bodies) = Len(received)
           /\ \A i \in 1..Len(received) :
                 /\ received[i] = sent[i]
                 /\ bodies[i] = Utf8Encode(Dumps(sent[i]))
           /\ consumed \in {FramesLen(Len(received)),
                            FramesLen(Len(received)) + Len(Utf8Encode(S_ContentTypeLine))}
           /\ exc \notin DecodeErrors
           /\ \A i \in 1..Len(trace) : trace[i].e \notin DecodeErrors
           /\ (pc \in {"finally", "done", "exited"} /\ Len(sent) = 6)
                 => (Len(received) = echoed /\ consumed = FramesLen(echoed))

\* all six frames went round, the text sent holding a non-ASCII character
C7_Witness ==
    /\ child.kind = "echo"
    /\ pc = "done"
    /\ Len(sent) = 6
    /\ received = sent
    /\ \E i \in 1..Len(file.txt) : file.txt[i] = "U+00E9"

\* the ids of the messages of ms that carry one, in order
IdsOf(ms) == LET withId == SelectSeq(ms, LAMBDA m : HasKey(m, S_id))
             IN  [i \in 1..Len(withId) |-> Get(withId[i], S_id)]

\* C8: the ids of the requests sent are 1, 2, 3, ... in sending order, so
\* after any prefix of the script they are distinct and strictly increasing.
C8_IdsSequential ==
    \A i \in 1..Len(IdsOf(sent)) : IdsOf(sent)[i] = JInt(i)

C8_Witness == Len(sent) = 6 /\ Len(IdsOf(sent)) = 4

MethodOf(m) == Get(m, S_method).s

Requests == {S_initialize, S_semanticTokens, S_documentSymbol, S_definition}

\* the id of the i-th message sent is carried by no earlier message
FreshId(i) ==
    /\ HasKey(sent[i], S_id)
    /\ \A j \in 1..(i - 1) :
          HasKey(sent[j], S_id) => Get(sent[j], S_id) /= Get(sent[i], S_id)

\* C9, as stated: each request carries a fresh id, and the two notifications
\* and the handshake (initialize) carry none.
C9_HandshakeWithoutId ==
    \A i \in 1..Len(sent) :
        /\ MethodOf(sent[i]) \in Requests \ {S_initialize} => FreshId(i)
        /\ MethodOf(sent[i]) \in {S_initialize, S_initialized, S_didOpen}
              => ~HasKey(sent[i], S_id)

\* C9, amended: each request, the handshake (initialize) included, carries a
\* fresh id, and the two notifications (initialized, didOpen) carry none.
C9_RequestsCarryFreshIds ==
    \A i \in 1..Len(sent) :
        /\ MethodOf(sent[i]) \in Requests => FreshId(i)
        /\ MethodOf(sent[i]) \in {S_initialized, S_didOpen} => ~HasKey(sent[i], S_id)

C9_Witness ==
    /\ Len(sent) = 6
    /\ HasKey(sent[1], S_id)
    /\ ~HasKey(sent[2], S_id)
    /\ ~HasKey(sent[3], S_id)

C10_State ==
    /\ terminated \in {0, 1}
    /\ terminated = 1 <=> pc \in {"done", "exited"}
    /\ exc /= "" => pc = "except"

C10_Step ==
    /\ terminated' /= terminated => (pc = "finally" /\ pc' = "done")
    /\ terminated = 1
          => /\ stdin' = stdin
             /\ sent' = sent
             /\ MainLines(trace') = MainLines(trace)
             /\ pc' \in {"done", "exited"}

\* C10: once the child is spawned, terminate() is called exactly once, as
\* the last step of run(), however the try block ended: every exception
\* raised is in the except clause, run() has returned exactly when the call
\* was made, and after it nothing is written to the child or printed by the
\* main task.
C10_TerminateOnceLast == [](C10_State) /\ [][C10_Step]_vars

\* run() has returned after a frame that could not be decoded
C10_Witness ==
    /\ pc = "done"
    /\ terminated = 1
    /\ \E i \in 1..Len(trace) : trace[i].e = "JSONDecodeError"

\* C11: the messages written are a prefix of the script, in its order, the
\* last frame written being the whole frame of the last message, and nothing
\* is read from the child's stdout before the sixth message has been written.
C11_FixedOrderNoReadBefore ==
    /\ Len(sent) <= Len(Script)
    /\ Len(stdin) = Len(sent)
    /\ \A i \in 1..Len(sent) : MethodOf(sent[i]) = Script[i]
    /\ sent /= <<>> => stdin[Len(stdin)] = SendFrame(sent[Len(sent)])
    /\ Len(sent) < Len(Script)
          => /\ consumed = 0
             /\ received = <<>>
             /\ bodies = <<>>
             /\ RecvLines(trace) = <<>>
    /\ pc = "loop" => Len(sent) = Len(Script)

\* the read loop has read replies to the six messages
C11_Witness == Len(sent) = 6 /\ consumed > 0 /\ Len(received) > 0

\* the lines the read loop prints for the responses to the four requests
FourResponses == [i \in 1..4 |-> Line("RESP", JInt(i))]

\* against a child that answers each of the four requests with one
\* success response carrying its identifier and then closes its stdout, the
\* read loop prints the response lines in the order emitted and nothing
\* else; when run() has returned the four lines are printed, no error is
\* reported and the child was terminated.
C12_State ==
    (child.kind = "reply" /\ file.ok)
        => /\ RecvLines(trace) = SubSeq(FourResponses, 1, Len(RecvLines(trace)))
           /\ Len(RecvLines(trace)) <= 4
           /\ ErrorLines(trace) = <<>>
           /\ exc = ""
           /\ pc \in {"finally", "done", "exited"} => RecvLines(trace) = FourResponses
           /\ pc \in {"done", "exited"} => terminated = 1

\* C12: against the reply child the scenario prints exactly one response
\* line per request identifier sent, in the order emitted, no error and no
\* other line for a message, and it does leave the read loop and terminate
\* the child.
C12_EndToEnd ==
    /\ []C12_State
    /\ (child.kind = "reply" /\ file.ok) ~> (pc \in {"done", "exited"} /\ terminated = 1)

C12_Witness ==
    child.kind = "reply" /\ pc = "done" /\ RecvLines(trace) = FourResponses

\* the lines of a byte stream, as successive readline() calls return them
RECURSIVE LinesOf(_)
LinesOf(bytes) ==
    IF bytes = <<>> THEN <<>>
    ELSE <<ReadLine(bytes)>> \o LinesOf(Drop(bytes, Len(ReadLine(bytes))))

\* the lines reader() printed for lines of the child's stderr
StderrLines(tr) == SelectSeq(tr, LAMBDA l : l.k = "STDERR")

\* what reader() prints for the lines of a stream that decodes
Diagnostics(bytes) ==
    [i \in 1..Len(LinesOf(bytes)) |->
        Line("STDERR", JStr(Strip(Utf8Decode(LinesOf(bytes)[i]).text)))]

\* every line of the stream is valid UTF-8
Decodable(bytes) == \A i \in 1..Len(LinesOf(bytes)) : Utf8Decode(LinesOf(bytes)[i]).ok

\* the stub wrote whole frames with no extra header and the right length
PlainStub ==
    /\ child.kind = "stub"
    /\ child.cut = 0
    /\ \A i \in 1..Len(child.frames) : child.frames[i] = PlainFrame(child.frames[i].msg)

\* C13: under every interleaving, the lines the child wrote to its stderr
\* are printed as STDERR lines once each and in order, all of them by the
\* time the session has ended, lines unread at the teardown included; and
\* every frame the child wrote to its stdout is printed once by the main task.
C13_NothingDropped ==
    Decodable(child.errs)
        => /\ StderrLines(trace)
                = SubSeq(Diagnostics(child.errs), 1, Len(StderrLines(trace)))
           /\ Len(StderrLines(trace)) <= Len(Diagnostics(child.errs))
           /\ pc = "exited"
                 => /\ StderrLines(trace) = Diagnostics(child.errs)
                    /\ (PlainStub /\ Len(sent) = 6)
                          => Len(RecvLines(trace)) = Len(child.frames)

\* the lines the except clause of reader() printed
ReaderErrors(tr) == SelectSeq(tr, LAMBDA l : l.k = "ReaderError")

C14_State ==
    /\ Len(ReaderErrors(trace)) <= 1
    /\ ReaderErrors(trace) /= <<>> => rpc = "done"
    /\ exc /= "" => pc = "except"

\* a step of the reader thread changes nothing of the main task, and a
\* reader that has ended prints nothing more
C14_Step ==
    /\ (rpc' /= rpc \/ err' /= err)
          => /\ UNCHANGED <<pc, exc, inOpen, stdin, sent, out, outEOF, consumed, received,
                            bodies, terminated>>
             /\ MainLines(trace') = MainLines(trace)
    /\ rpc = "done"
          => /\ rpc' = "done"
             /\ StderrLines(trace') = StderrLines(trace)
             /\ ReaderErrors(trace') = ReaderErrors(trace)

\* C14: a failure to decode the child's stderr is caught in reader(), prints
\* one drain-failure line and ends the reader; no step of the reader changes
\* the state of the main task, which no exception of the reader reaches.
C14_DrainFailureContained == [](C14_State) /\ [][C14_Step]_vars

\* the reader failed and the main task went through its read loop to the end
C14_Witness ==
    /\ Len(ReaderErrors(trace)) = 1
    /\ pc = "done"
    /\ Len(RecvLines(trace)) = 1
    /\ ErrorLines(trace) = <<>>

\* a write to the child's stdin has failed
WriteFailed ==
    exc = "BrokenPipeError" \/ \E i \in 1..Len(trace) : trace[i].e = "BrokenPipeError"

C15_State ==
    WriteFailed
        => /\ pc \in {"except", "finally", "done", "exited"}
           /\ Len(sent) < Len(Script)
           /\ Len(stdin) = Len(sent)
           /\ consumed = 0
           /\ received = <<>>
           /\ RecvLines(trace) = <<>>
           /\ Len(ErrorLines(trace)) = (IF pc = "except" THEN 0 ELSE 1)
           /\ pc \in {"done", "exited"} => terminated = 1

C15_Step == WriteFailed => (stdin' = stdin /\ sent' = sent /\ pc' /= "loop")

\* C15: when a write to the child's stdin fails at a step of the script, the
\* failure is reported once, nothing more is written (no later message, no
\* second attempt), the read loop is not entered, and the next steps are the
\* except clause and the termination of the child.
C15_WriteFailureEndsScript == [](C15_State) /\ [][C15_Step]_vars

\* the fourth send failed and run() has returned
C15_Witness ==
    /\ WriteFailed
    /\ Len(sent) = 3
    /\ pc = "done"
    /\ terminated = 1

\* the lines of the trace that report a send: those send() prints and the
\* two the script prints itself
SentLines(tr) == SelectSeq(tr, LAMBDA l : l.k \in {"Sent", "SentNote"})

\* C16: the trace holds exactly one sent line per message written to the
\* child, tagged with the method of the message and printed once its frame
\* is written and flushed; after the six sends it holds six sent lines.
C16_OneSentLinePerMessage ==
    /\ Len(SentLines(trace)) = Len(stdin)
    /\ \A i \in 1..Len(SentLines(trace)) :
          i <= Len(sent) => SentLines(trace)[i] = Line("Sent", Get(sent[i], S_method))
    /\ Len(sent) = Len(Script) => Len(SentLines(trace)) = Len(Script)

\* a whole line of the child's stderr is waiting to be read
LineWaiting == IndexOf(err, "\n", 1) /= 0

C18_State == (rpc = "done" /\ ReaderErrors(trace) = <<>>) => (errEOF /\ err = <<>>)

C18_Step ==
    /\ rpc = "done" => (rpc' = "done" /\ err' = err)
    /\ rpc = "done" => Len(trace') - Len(MainLines(trace')) = Len(trace) - Len(MainLines(trace))

----------------------------------------------------------------------------
(* benchmark/sieve.py: run_sieve(limit), a sieve of Eratosthenes over the  *)
(* odd numbers; arr[k] stands for the number 2k + 1.                       *)

MaxLimit == 60

\* start = actual_factor * actual_factor // 2, from the square itself
StartAtSquare(f) == f * f

\* start = actual_factor * actual_factor // 2
Start(f) == (f * f) \div 2

\* next_guess = (guess + n // guess) // 2
NextGuess(n, g) == (g + n \div g) \div 2

\* run_sieve(limit) is called: size and arr are set, init_sieve(arr, 0, size)
\* is entered
SieveInit ==
    /\ MainIdle
    /\ PipeIdle
    /\ \E n \in 2..MaxLimit :
          /\ limit = n
          /\ size = (n + 1) \div 2
          /\ arr = [k \in 0..((n + 1) \div 2 - 1) |-> 0]
    /\ spc = "init_sieve"
    /\ idx = 0
    /\ num = 0
    /\ root = 0
    /\ guess = 0
    /\ factor = 0
    /\ actual_factor = 0
    /\ count = 0

\* init_sieve: one pass of its loop, or its return, arr[0] = 0 and the call
\* isqrt(limit, limit // 2)
InitSieve ==
    /\ spc = "init_sieve"
    /\ IF idx < size
       THEN /\ arr' = [arr EXCEPT ![idx] = 1]
            /\ idx' = idx + 1
            /\ UNCHANGED <<spc, guess>>
       ELSE /\ arr' = [arr EXCEPT ![0] = 0]
            /\ guess' = limit \div 2
            /\ spc' = "isqrt"
            /\ idx' = idx
    /\ UNCHANGED <<limit, size, num, root, factor, actual_factor, count>>
    /\ UNCHANGED <<vars, pipeVars>>

\* isqrt: one pass of its loop; on return q is set and factor = 3
Isqrt ==
    /\ spc = "isqrt"
    /\ IF NextGuess(limit, guess) >= guess
       THEN /\ root' = guess
            /\ factor' = 3
            /\ spc' = "while"
            /\ guess' = guess
       ELSE /\ guess' = NextGuess(limit, guess)
            /\ UNCHANGED <<root, factor, spc>>
    /\ UNCHANGED <<limit, size, arr, idx, num, actual_factor, count>>
    /\ UNCHANGED <<vars, pipeVars>>

\* while factor <= q: the call find_next_prime(arr, factor // 2, q // 2), or
\* the end of the loop and the call count_primes(arr, size)
While ==
    /\ spc \in {"while", "return"}
    /\ IF spc = "while" /\ factor <= root
       THEN /\ idx' = factor \div 2
            /\ spc' = "find_next_prime"
            /\ count' = count
       ELSE /\ idx' = 0
            /\ count' = 1
            /\ spc' = "count_primes"
    /\ UNCHANGED <<limit, size, arr, num, root, guess, factor, actual_factor>>
    /\ UNCHANGED <<vars, pipeVars>>

\* find_next_prime: one pass of its loop, or its return; when it returns 0
\* the while loop is left (break), else actual_factor and start are set and
\* clear_multiples is called
FindNextPrime ==
    /\ spc = "find_next_prime"
    /\ IF idx <= root \div 2
       THEN IF arr[idx] = 1
            THEN /\ spc' = IF idx = 0 THEN "return" ELSE "clear_multiples"
                 /\ actual_factor' = idx * 2 + 1
                 /\ num' = Start(idx * 2 + 1)
                 /\ idx' = idx
            ELSE /\ idx' = idx + 1
                 /\ UNCHANGED <<spc, actual_factor, num>>
       ELSE /\ spc' = "return"
            /\ UNCHANGED <<idx, actual_factor, num>>
    /\ UNCHANGED <<limit, size, arr, root, guess, factor, count>>
    /\ UNCHANGED <<vars, pipeVars>>

\* clear_multiples: one pass of its loop, or its return and
\* factor = actual_factor + 2
ClearMultiples ==
    /\ spc = "clear_multiples"
    /\ IF num < size
       THEN /\ arr' = [arr EXCEPT ![num] = 0]
            /\ num' = num + actual_factor
            /\ UNCHANGED <<spc, factor>>
       ELSE /\ factor' = actual_factor + 2
            /\ spc' = "while"
            /\ UNCHANGED <<arr, num>>
    /\ UNCHANGED <<limit, size, idx, root, guess, actual_factor, count>>
    /\ UNCHANGED <<vars, pipeVars>>

\* count_primes: one pass of its loop, or its return, which is that of
\* run_sieve
CountPrimes ==
    /\ spc = "count_primes"
    /\ IF idx < size
       THEN /\ count' = IF arr[idx] = 1 THEN count + 1 ELSE count
            /\ idx' = idx + 1
            /\ spc' = spc
       ELSE /\ spc' = "done"
            /\ UNCHANGED <<count, idx>>
    /\ UNCHANGED <<limit, size, arr, num, root, guess, factor, actual_factor>>
    /\ UNCHANGED <<vars, pipeVars>>

SieveNext ==
    \/ InitSieve
    \/ Isqrt
    \/ While
    \/ FindNextPrime
    \/ ClearMultiples
    \/ CountPrimes

\* a call of run_sieve runs on: nothing suspends it
SieveSpec == SieveInit /\ [][SieveNext]_sieveVars /\ WF_sieveVars(SieveNext)

----------------------------------------------------------------------------
(* What run_sieve is to compute, stated without the sieve.                 *)

IsPrime(p) == p >= 2 /\ \A d \in 2..(p - 1) : p % d /= 0

PrimeCount(n) == Cardinality({p \in 2..n : IsPrime(p)})

IntegerSqrt(n) == CHOOSE r \in 0..n : r * r <= n /\ n < (r + 1) * (r + 1)

\* isqrt has returned
IsqrtReturned == spc \in {"while", "find_next_prime", "clear_multiples", "return", "count_primes", "done"}

C19_State ==
    /\ IsqrtReturned => root = IntegerSqrt(limit)
    /\ spc \in {"count_primes", "done"} =>
          \A k \in 0..(size - 1) : arr[k] = 1 <=> IsPrime(2 * k + 1)
    /\ spc = "done" => count = PrimeCount(limit)

\* C19: for every limit from 2 to MaxLimit, run_sieve(limit) terminates and
\* returns the number of primes p with 2 <= p <= limit: when the marking is
\* over arr holds 1 exactly at the indices k with 2k + 1 prime, the count
\* adds one for the prime 2, and isqrt(limit, limit // 2) returns the integer
\* square root of limit.
C19_SieveCountsPrimes == []C19_State /\ <>(spc = "done")

\* a run that struck out multiples of 3 and of 5 has returned
C19_Witness == spc = "done" /\ limit >= 25 /\ actual_factor = 5 /\ count = PrimeCount(limit)

----------------------------------------------------------------------------
(* run() on pipes of bounded capacity. Sizes are counted in bytes and      *)
(* nothing else of the frames is kept: send() writes a frame and flushes,  *)
(* which returns once the pipe has taken every byte; the main thread reads *)
(* the child's stdout only in the read loop, after the sixth send; the     *)
(* reader thread reads the child's stderr all along. The child reads a     *)
(* frame, writes its diagnostics and its reply, and reads the next frame.  *)

MaxCap == 2
MaxText == 2
MaxReply == 2
MaxDiag == 1

Smaller(a, b) == IF a <= b THEN a ELSE b

\* the capacity of each pipe, the size of the opened file's text, of a reply
\* and of the diagnostics the child writes for a frame
Plans ==
    [cap : 1..MaxCap, text : 0..MaxText, reply : 0..MaxReply, diag : 0..MaxDiag]

\* bytes of the k-th frame of the script: didOpen carries the file's text
FrameSize(k) == IF Script[k] = S_didOpen THEN 1 + plan.text ELSE 1

\* bytes the child answers the k-th frame with: requests are answered,
\* notifications are not
ReplySize(k) ==
    IF Script[k] \in {S_initialize, S_semanticTokens, S_documentSymbol, S_definition}
    THEN plan.reply
    ELSE 0

\* Popen: three empty pipes, nothing written yet
PipeInit ==
    /\ MainIdle
    /\ SieveIdle
    /\ plan \in Plans
    /\ wk = 0
    /\ wleft = 0
    /\ inPipe = 0
    /\ outPipe = 0
    /\ errPipe = 0
    /\ crk = 0
    /\ cgot = 0
    /\ cout = 0
    /\ cerr = 0

\* send(): the writes and the flush of the next frame, as far as the pipe has
\* room; the main thread stays in send() until the whole frame is written
PipeSend ==
    /\ wk < Len(Script)
    /\ inPipe < plan.cap
    /\ \E left \in {IF wleft = 0 THEN FrameSize(wk + 1) ELSE wleft} :
       \E n \in {Smaller(left, plan.cap - inPipe)} :
          /\ inPipe' = inPipe + n
          /\ wleft' = left - n
          /\ wk' = IF n = left THEN wk + 1 ELSE wk
    /\ UNCHANGED <<plan, outPipe, errPipe, crk, cgot, cout, cerr>>
    /\ UNCHANGED <<vars, sieveVars>>

\* the read loop: reached after the sixth send only, it takes what the child
\* has written to its stdout
PipeReadLoop ==
    /\ wk = Len(Script)
    /\ outPipe > 0
    /\ outPipe' = 0
    /\ UNCHANGED <<plan, wk, wleft, inPipe, errPipe, crk, cgot, cout, cerr>>
    /\ UNCHANGED <<vars, sieveVars>>

\* the reader thread takes what the child has written to its stderr
PipeReader ==
    /\ errPipe > 0
    /\ errPipe' = 0
    /\ UNCHANGED <<plan, wk, wleft, inPipe, outPipe, crk, cgot, cout, cerr>>
    /\ UNCHANGED <<vars, sieveVars>>

\* the child reads of the next frame what the pipe holds; a whole frame sets
\* its diagnostics and its reply to write
PipeChildRead ==
    /\ crk < Len(Script)
    /\ cerr = 0
    /\ cout = 0
    /\ inPipe > 0
    /\ \E n \in {Smaller(inPipe, FrameSize(crk + 1) - cgot)} :
          /\ inPipe' = inPipe - n
          /\ IF cgot + n = FrameSize(crk + 1)
             THEN /\ crk' = crk + 1
                  /\ cgot' = 0
                  /\ cerr' = plan.diag
                  /\ cout' = ReplySize(crk + 1)
             ELSE /\ cgot' = cgot + n
                  /\ UNCHANGED <<crk, cerr, cout>>
    /\ UNCHANGED <<plan, wk, wleft, outPipe, errPipe>>
    /\ UNCHANGED <<vars, sieveVars>>

\* the child writes its diagnostics to stderr, as far as the pipe has room
PipeChildDiag ==
    /\ cerr > 0
    /\ errPipe < plan.cap
    /\ \E n \in {Smaller(cerr, plan.cap - errPipe)} :
          /\ errPipe' = errPipe + n
          /\ cerr' = cerr - n
    /\ UNCHANGED <<plan, wk, wleft, inPipe, outPipe, crk, cgot, cout>>
    /\ UNCHANGED <<vars, sieveVars>>

\* the child writes its reply to stdout, as far as the pipe has room
PipeChildReply ==
    /\ cerr = 0
    /\ cout > 0
    /\ outPipe < plan.cap
    /\ \E n \in {Smaller(cout, plan.cap - outPipe)} :
          /\ outPipe' = outPipe + n
          /\ cout' = cout - n
    /\ UNCHANGED <<plan, wk, wleft, inPipe, errPipe, crk, cgot, cerr>>
    /\ UNCHANGED <<vars, sieveVars>>

PipeNext ==
    \/ PipeSend
    \/ PipeReadLoop
    \/ PipeReader
    \/ PipeChildRead
    \/ PipeChildDiag
    \/ PipeChildReply

\* every thread and the child run on whenever they can (WF_): a step that
\* stays possible is taken
PipeSpec ==
    /\ PipeInit
    /\ [][PipeNext]_pipeVars
    /\ WF_pipeVars(PipeSend)
    /\ WF_pipeVars(PipeReadLoop)
    /\ WF_pipeVars(PipeReader)
    /\ WF_pipeVars(PipeChildRead)
    /\ WF_pipeVars(PipeChildDiag)
    /\ WF_pipeVars(PipeChildReply)

\* the main thread is in send(), the child's stdin pipe full
MainBlockedWriting == wk < Len(Script) /\ inPipe = plan.cap

\* the child is writing its reply, its stdout pipe full
ChildBlockedWriting == cerr = 0 /\ cout > 0 /\ outPipe = plan.cap

\* C17: with pipes of bounded capacity and a child that reads its input and
\* writes replies and diagnostics as it goes, the main thread is never
\* blocked writing to the child's full stdin pipe while the child is blocked
\* writing to its full stdout pipe.
C17_NoWriteWriteDeadlock == ~(MainBlockedWriting /\ ChildBlockedWriting)

\* C17, the progress half: the main thread always finishes its six writes
\* and reaches the read loop.
C17_SendsFinish == <>(wk = Len(Script))


====
